---- MODULE Spec2Model ----
(***************************************************************************)
(* Tic-Tac: the two-player component and the vs-computer component of      *)
(* src/tic-tac-toe/src/App.tsx as one state machine.  `variant` selects    *)
(* the component that is mounted.  A handler and the render, effect        *)
(* cleanup and effect run that React commits for it are one step: a click  *)
(* is flushed before the next event, and the setters a timer callback      *)
(* queues are applied in queue order before those of any later handler.    *)
(***************************************************************************)
EXTENDS Integers, Sequences, FiniteSets, TLC

VARIABLES
    variant,        \* "two" (App.tsx:14-174) or "cpu" (App.tsx:189-450)
    board,          \* useState<Board>
    currentPlayer,  \* useState<Player>
    gameState,      \* useState<GameState>
    winner,         \* useState<Player | null>
    stats,          \* useState<GameStats>
    timers,         \* pending setTimeout callbacks: records [id, board]
    cleanup,        \* timer id held by the last effect's cleanup closure, 0 if none
    last,           \* history: the step just taken, with the cell an automated move wrote
    finished        \* history: terminal phases reached since the last resetStats

vars == <<variant, board, currentPlayer, gameState, winner, stats,
          timers, cleanup, last, finished>>

\* Bound on xWins + oWins + draws (the counters of the code are unbounded).
MaxGames == 2

\* Bound on the empty cells of the boards getBestMove is probed with.
MaxProbeEmpty == 4

Cells == 0..8
null == "null"
Players == {"X", "O"}
Marks == {"X", "O", null}
NoTimer == 0

\* Array(9).fill(null)
EmptyBoard == [i \in Cells |-> null]

\* winningCombinations, in the order of the array literal
winningCombinations ==
    << <<0, 1, 2>>, <<3, 4, 5>>, <<6, 7, 8>>,
       <<0, 3, 6>>, <<1, 4, 7>>, <<2, 5, 8>>,
       <<0, 4, 8>>, <<2, 4, 6>> >>

\* board[a] && board[a] === board[b] && board[a] === board[c]
Line(b, p, q, r) == b[p] # null /\ b[p] = b[q] /\ b[p] = b[r]

\* Mutant of checkWinner: the table lacks its last combination [2, 4, 6].
checkWinnerSevenLines(b) ==
    IF Line(b, 0, 1, 2) THEN b[0]
    ELSE IF Line(b, 3, 4, 5) THEN b[3]
    ELSE IF Line(b, 6, 7, 8) THEN b[6]
    ELSE IF Line(b, 0, 3, 6) THEN b[0]
    ELSE IF Line(b, 1, 4, 7) THEN b[1]
    ELSE IF Line(b, 2, 5, 8) THEN b[2]
    ELSE IF Line(b, 0, 4, 8) THEN b[0]
    ELSE null

\* checkWinner: the for-loop over winningCombinations, unrolled in array order;
\* the first completed combination returns its mark
checkWinner(b) ==
    IF Line(b, 0, 1, 2) THEN b[0]
    ELSE IF Line(b, 3, 4, 5) THEN b[3]
    ELSE IF Line(b, 6, 7, 8) THEN b[6]
    ELSE IF Line(b, 0, 3, 6) THEN b[0]
    ELSE IF Line(b, 1, 4, 7) THEN b[1]
    ELSE IF Line(b, 2, 5, 8) THEN b[2]
    ELSE IF Line(b, 0, 4, 8) THEN b[0]
    ELSE IF Line(b, 2, 4, 6) THEN b[2]
    ELSE null

\* isBoardFull
isBoardFull(b) == \A i \in Cells : b[i] # null

\* getEmptyCells (as the set of the indices it lists)
getEmptyCells(b) == {i \in Cells : b[i] = null}

\* -Infinity and Infinity of the code: outside the range -10..10 of every score
NegInfinity == -1000
PosInfinity == 1000

\* Math.max and Math.min folded over the scores of a loop
MaxOf(S) == CHOOSE m \in S : \A y \in S : y <= m
MinOf(S) == CHOOSE m \in S : \A y \in S : y >= m

RECURSIVE minimaxUnsigned(_, _, _)
\* Mutant of minimax: a board won by X is scored 10 - depth as well.
minimaxUnsigned(b, depth, isMaximizing) ==
    LET w == checkWinner(b)
    IN  IF w = "O" THEN 10 - depth
        ELSE IF w = "X" THEN 10 - depth
        ELSE IF isBoardFull(b) THEN 0
        ELSE IF isMaximizing
        THEN MaxOf({NegInfinity} \cup
                   {minimaxUnsigned([b EXCEPT ![i] = "O"], depth + 1, FALSE) :
                        i \in getEmptyCells(b)})
        ELSE MinOf({PosInfinity} \cup
                   {minimaxUnsigned([b EXCEPT ![i] = "X"], depth + 1, TRUE) :
                        i \in getEmptyCells(b)})

RECURSIVE minimax(_, _, _)
\* minimax: each loop folds Math.max (Math.min) over the scores of the empty
\* cells, starting from -Infinity (Infinity)
minimax(b, depth, isMaximizing) ==
    LET w == checkWinner(b)
    IN  IF w = "O" THEN 10 - depth
        ELSE IF w = "X" THEN depth - 10
        ELSE IF isBoardFull(b) THEN 0
        ELSE IF isMaximizing
        THEN MaxOf({NegInfinity} \cup
                   {minimax([b EXCEPT ![i] = "O"], depth + 1, FALSE) :
                        i \in getEmptyCells(b)})
        ELSE MinOf({PosInfinity} \cup
                   {minimax([b EXCEPT ![i] = "X"], depth + 1, TRUE) :
                        i \in getEmptyCells(b)})

\* score of getBestMove's loop body for empty cell i
MoveScore(b, i) == minimax([b EXCEPT ![i] = "O"], 0, FALSE)

\* Mutant of getBestMove: bestScore starts at 0 instead of -Infinity.
getBestMoveFromZero(b) ==
    LET scored == {<<i, MoveScore(b, i)>> : i \in getEmptyCells(b)}
        better == {p \in scored : p[2] > 0}
    IN  IF better = {} THEN -1
        ELSE (CHOOSE p \in better :
                  /\ \A q \in better : q[2] <= p[2]
                  /\ \A q \in better : q[1] < p[1] => q[2] < p[2])[1]

\* Mutant of getBestMove: the comparison is score >= bestScore, so the loop
\* keeps the last index of maximal score.
getBestMoveLastBest(b) ==
    LET scored == {<<i, MoveScore(b, i)>> : i \in getEmptyCells(b)}
        better == {p \in scored : p[2] > NegInfinity}
    IN  IF better = {} THEN -1
        ELSE (CHOOSE p \in better :
                  /\ \A q \in better : q[2] <= p[2]
                  /\ \A q \in better : q[1] > p[1] => q[2] < p[2])[1]

\* getBestMove: the loop keeps the first index whose score is strictly greater
\* than every score before it, so it returns the lowest index of maximal
\* score, or -1 when no score exceeds -Infinity
getBestMove(b) ==
    LET scored == {<<i, MoveScore(b, i)>> : i \in getEmptyCells(b)}
        better == {p \in scored : p[2] > NegInfinity}
    IN  IF better = {} THEN -1
        ELSE (CHOOSE p \in better :
                  /\ \A q \in better : q[2] <= p[2]
                  /\ \A q \in better : q[1] < p[1] => q[2] < p[2])[1]

\* The boards the first automated move of a game can be given (one X), and the
\* boards the second and the third can be given (the replies, then one more X).
\* getBestMove is evaluated once on each; CachedBestMove looks the result up.
FirstBoards == {[EmptyBoard EXCEPT ![i] = "X"] : i \in Cells}

FirstReplies == {<<b, getBestMove(b)>> : b \in FirstBoards}

SecondBoards ==
    UNION {{[[p[1] EXCEPT ![p[2]] = "O"] EXCEPT ![j] = "X"] :
                j \in getEmptyCells(p[1]) \ {p[2]}} :
           p \in {q \in FirstReplies : q[2] \in getEmptyCells(q[1])}}

SecondReplies == {<<b, getBestMove(b)>> : b \in SecondBoards}

ThirdBoards ==
    UNION {{[[p[1] EXCEPT ![p[2]] = "O"] EXCEPT ![j] = "X"] :
                j \in getEmptyCells(p[1]) \ {p[2]}} :
           p \in {q \in SecondReplies :
                      /\ q[2] \in getEmptyCells(q[1])
                      /\ checkWinner(q[1]) = null
                      /\ checkWinner([q[1] EXCEPT ![q[2]] = "O"]) = null}}

ThirdReplies == {<<b, getBestMove(b)>> : b \in ThirdBoards}

BestMoveCache == FirstReplies \cup SecondReplies \cup ThirdReplies

\* getBestMove(b), read from the cache when b is one of its boards
CachedBestMove(b) ==
    IF \E p \in BestMoveCache : p[1] = b
    THEN (CHOOSE p \in BestMoveCache : p[1] = b)[2]
    ELSE getBestMove(b)

\* useState<GameStats>({ xWins: 0, oWins: 0, draws: 0 })
NoStats == [xWins |-> 0, oWins |-> 0, draws |-> 0]

Init ==
    /\ variant \in {"two", "cpu"}
    /\ board = EmptyBoard
    /\ currentPlayer = "X"
    /\ gameState = "playing"
    /\ winner = null
    /\ stats = NoStats
    /\ timers = {}
    /\ cleanup = NoTimer
    /\ last = [op |-> "init", index |-> -1, how |-> "none"]
    /\ finished = 0

\* The model's bound: a move is accepted only while fewer than MaxGames games
\* are counted, so no game in progress can take the counters past the bound and
\* the bound never holds back a pending automated move.
WithinBound(s) == s.xWins + s.oWins + s.draws < MaxGames

\* setStats(prev => ({...prev, [key]: prev[key] + 1})) for a win of mark w
WinStats(s, w) ==
    IF w = "X" THEN [s EXCEPT !.xWins = @ + 1] ELSE [s EXCEPT !.oWins = @ + 1]

\* Mutant of DrawStats: a draw is not counted.
DrawStatsUncounted(s) == s

\* setStats(prev => ({...prev, draws: prev.draws + 1}))
DrawStats(s) == [s EXCEPT !.draws = @ + 1]

\* Mutant of Commit: the full board is tested before the winner.
CommitDrawFirst(newBoard, next) ==
    LET gameWinner == checkWinner(newBoard)
    IN  /\ board' = newBoard
        /\ IF isBoardFull(newBoard)
           THEN /\ gameState' = "draw"
                /\ stats' = DrawStats(stats)
                /\ UNCHANGED <<winner, currentPlayer>>
           ELSE IF gameWinner # null
           THEN /\ winner' = gameWinner
                /\ gameState' = "won"
                /\ stats' = WinStats(stats, gameWinner)
                /\ UNCHANGED currentPlayer
           ELSE /\ currentPlayer' = next
                /\ UNCHANGED <<winner, gameState, stats>>

\* The tail shared by handleCellClick (both components) and makeComputerMove:
\* setBoard(newBoard), then win, else draw, else the turn passes to `next`.
Commit(newBoard, next) ==
    LET gameWinner == checkWinner(newBoard)
    IN  /\ board' = newBoard
        /\ IF gameWinner # null
           THEN /\ winner' = gameWinner
                /\ gameState' = "won"
                /\ stats' = WinStats(stats, gameWinner)
                /\ UNCHANGED currentPlayer
           ELSE IF isBoardFull(newBoard)
           THEN /\ gameState' = "draw"
                /\ stats' = DrawStats(stats)
                /\ UNCHANGED <<winner, currentPlayer>>
           ELSE /\ currentPlayer' = next
                /\ UNCHANGED <<winner, gameState, stats>>

\* history: a step that takes the phase from playing to won or draw ends a game
Observe ==
    finished' = IF gameState = "playing" /\ gameState' # "playing"
                THEN finished + 1 ELSE finished

\* setTimeout: an id no pending timer has
NewTimerId(tm) ==
    CHOOSE i \in 1..(Cardinality(tm) + 1) : \A t \in tm : t.id # i

\* Mutant of ClearTimeout: the effect returns no cleanup, so nothing is cleared.
ClearTimeoutNever(tm, id) == tm

\* clearTimeout(timer) of the effect's cleanup: a no-op for a timer that has fired
ClearTimeout(tm, id) == {t \in tm : t.id # id}

\* Mutant of RunEffect: the callback captures the board of the render before
\* the one that scheduled it.
RunEffectStaleBoard(tm) ==
    IF variant = "cpu" /\ <<currentPlayer', gameState'>> # <<currentPlayer, gameState>>
    THEN LET cleared == {t \in tm : t.id # cleanup}
         IN  IF currentPlayer' = "O" /\ gameState' = "playing"
             THEN LET id == NewTimerId(cleared)
                  IN  /\ timers' = cleared \cup {[id |-> id, board |-> board]}
                      /\ cleanup' = id
             ELSE /\ timers' = cleared
                  /\ cleanup' = NoTimer
    ELSE /\ timers' = tm
         /\ UNCHANGED cleanup

\* Mutant of RunEffect: the dependency array is [gameState] alone.
RunEffectGameStateOnly(tm) ==
    IF variant = "cpu" /\ gameState' # gameState
    THEN LET cleared == ClearTimeout(tm, cleanup)
         IN  IF currentPlayer' = "O" /\ gameState' = "playing"
             THEN LET id == NewTimerId(cleared)
                  IN  /\ timers' = cleared \cup {[id |-> id, board |-> board']}
                      /\ cleanup' = id
             ELSE /\ timers' = cleared
                  /\ cleanup' = NoTimer
    ELSE /\ timers' = tm
         /\ UNCHANGED cleanup

\* useEffect(..., [currentPlayer, gameState]) as React commits it after the
\* render that follows a handler: when a dependency changed, the previous
\* effect's cleanup runs and then the effect, which captures the rendered board.
\* tm is the set of timers pending when the render commits.
RunEffect(tm) ==
    IF variant = "cpu" /\ <<currentPlayer', gameState'>> # <<currentPlayer, gameState>>
    THEN LET cleared == ClearTimeout(tm, cleanup)
         IN  IF currentPlayer' = "O" /\ gameState' = "playing"
             THEN LET id == NewTimerId(cleared)
                  IN  /\ timers' = cleared \cup {[id |-> id, board |-> board']}
                      /\ cleanup' = id
             ELSE /\ timers' = cleared
                  /\ cleanup' = NoTimer
    ELSE /\ timers' = tm
         /\ UNCHANGED cleanup

\* Mutant of HandleCellClickTwo: the guard does not test board[index].
HandleCellClickTwoOverwrite(index) ==
    /\ variant = "two"
    /\ IF gameState # "playing"
       THEN /\ UNCHANGED <<board, currentPlayer, gameState, winner, stats>>
            /\ last' = [op |-> "click", index |-> -1, how |-> "rejected"]
       ELSE /\ WithinBound(stats)
            /\ Commit([board EXCEPT ![index] = currentPlayer],
                      IF currentPlayer = "X" THEN "O" ELSE "X")
            /\ last' = [op |-> "click", index |-> -1, how |-> "accepted"]
    /\ RunEffect(timers)
    /\ Observe
    /\ UNCHANGED variant

\* Mutant of HandleCellClickTwo: the guard does not test gameState.
HandleCellClickTwoAnyPhase(index) ==
    /\ variant = "two"
    /\ IF board[index] # null
       THEN /\ UNCHANGED <<board, currentPlayer, gameState, winner, stats>>
            /\ last' = [op |-> "click", index |-> -1, how |-> "rejected"]
       ELSE /\ WithinBound(stats)
            /\ Commit([board EXCEPT ![index] = currentPlayer],
                      IF currentPlayer = "X" THEN "O" ELSE "X")
            /\ last' = [op |-> "click", index |-> -1, how |-> "accepted"]
    /\ RunEffect(timers)
    /\ Observe
    /\ UNCHANGED variant

\* handleCellClick of the two-player component
HandleCellClickTwo(index) ==
    /\ variant = "two"
    /\ IF board[index] # null \/ gameState # "playing"
       THEN /\ UNCHANGED <<board, currentPlayer, gameState, winner, stats>>
            /\ last' = [op |-> "click", index |-> -1, how |-> "rejected"]
       ELSE /\ WithinBound(stats)
            /\ Commit([board EXCEPT ![index] = currentPlayer],
                      IF currentPlayer = "X" THEN "O" ELSE "X")
            /\ last' = [op |-> "click", index |-> -1, how |-> "accepted"]
    /\ RunEffect(timers)
    /\ Observe
    /\ UNCHANGED variant

\* Mutant of HandleCellClickCpu: the guard does not test currentPlayer.
HandleCellClickCpuAnyTurn(index) ==
    /\ variant = "cpu"
    /\ IF board[index] # null \/ gameState # "playing"
       THEN /\ UNCHANGED <<board, currentPlayer, gameState, winner, stats>>
            /\ last' = [op |-> "click", index |-> -1, how |-> "rejected"]
       ELSE /\ WithinBound(stats)
            /\ Commit([board EXCEPT ![index] = "X"], "O")
            /\ last' = [op |-> "click", index |-> -1, how |-> "accepted"]
    /\ RunEffect(timers)
    /\ Observe
    /\ UNCHANGED variant

\* handleCellClick of the vs-computer component
HandleCellClickCpu(index) ==
    /\ variant = "cpu"
    /\ IF board[index] # null \/ gameState # "playing" \/ currentPlayer # "X"
       THEN /\ UNCHANGED <<board, currentPlayer, gameState, winner, stats>>
            /\ last' = [op |-> "click", index |-> -1, how |-> "rejected"]
       ELSE /\ WithinBound(stats)
            /\ Commit([board EXCEPT ![index] = "X"], "O")
            /\ last' = [op |-> "click", index |-> -1, how |-> "accepted"]
    /\ RunEffect(timers)
    /\ Observe
    /\ UNCHANGED variant

\* The move makeComputerMove picks: getBestMove, or a random empty cell when
\* getBestMove returns -1.  The set of <<move, how>> it can end with.
ComputerMoves(currentBoard) ==
    LET computerMove == CachedBestMove(currentBoard)
    IN  IF computerMove = -1
        THEN {<<i, "random">> : i \in getEmptyCells(currentBoard)}
        ELSE {<<computerMove, "minimax">>}

\* A pending timer fires: makeComputerMove(board) on the board its effect captured.
FireTimer(t) ==
    /\ t \in timers
    /\ IF getEmptyCells(t.board) = {}
       THEN /\ UNCHANGED <<board, currentPlayer, gameState, winner, stats>>
            /\ last' = [op |-> "timer", index |-> -1, how |-> "returned"]
       ELSE \E m \in ComputerMoves(t.board) :
                /\ Commit([t.board EXCEPT ![m[1]] = "O"], "X")
                /\ last' = [op |-> "timer", index |-> m[1], how |-> m[2]]
    /\ RunEffect(timers \ {t})
    /\ Observe
    /\ UNCHANGED variant

\* history: whether a timer is pending when a reset handler runs
Pending == IF timers = {} THEN "idle" ELSE "pending"

\* Mutant of ResetGame: the counters are reinitialised as well.
ResetGameClearsStats ==
    /\ board' = EmptyBoard
    /\ currentPlayer' = "X"
    /\ gameState' = "playing"
    /\ winner' = null
    /\ stats' = NoStats
    /\ last' = [op |-> "resetGame", index |-> -1, how |-> Pending]
    /\ RunEffect(timers)
    /\ Observe
    /\ UNCHANGED variant

\* resetGame (the same code in both components)
ResetGame ==
    /\ board' = EmptyBoard
    /\ currentPlayer' = "X"
    /\ gameState' = "playing"
    /\ winner' = null
    /\ UNCHANGED stats
    /\ last' = [op |-> "resetGame", index |-> -1, how |-> Pending]
    /\ RunEffect(timers)
    /\ Observe
    /\ UNCHANGED variant

\* Mutant of ResetStats: the handler also clears the pending timer.
ResetStatsCancelsTimer ==
    /\ stats' = NoStats
    /\ UNCHANGED <<board, currentPlayer, gameState, winner>>
    /\ last' = [op |-> "resetStats", index |-> -1, how |-> Pending]
    /\ timers' = {}
    /\ cleanup' = NoTimer
    /\ finished' = 0
    /\ UNCHANGED variant

\* resetStats (the same code in both components)
ResetStats ==
    /\ stats' = NoStats
    /\ UNCHANGED <<board, currentPlayer, gameState, winner>>
    /\ last' = [op |-> "resetStats", index |-> -1, how |-> Pending]
    /\ RunEffect(timers)
    /\ finished' = 0
    /\ UNCHANGED variant

Next ==
    \/ \E index \in Cells : HandleCellClickTwo(index)
    \/ \E index \in Cells : HandleCellClickCpu(index)
    \/ \E t \in timers : FireTimer(t)
    \/ ResetGame
    \/ ResetStats

Spec == Init /\ [][Next]_vars

\* The vs-computer component alone, with the browser's guarantee that a timer
\* that is not cleared fires: setTimeout(..., 500) runs its callback.
InitCpu == Init /\ variant = "cpu"

TimerFires == \E t \in timers : FireTimer(t)

NextCpu ==
    \/ \E index \in Cells : HandleCellClickCpu(index)
    \/ TimerFires
    \/ ResetGame
    \/ ResetStats

SpecCpuFair == InitCpu /\ [][NextCpu]_vars /\ WF_vars(TimerFires)

\* Every board, reachable in play or not, with 1..MaxProbeEmpty empty cells,
\* and the empty board and the boards of the first two automated moves.
\* The cells an X player that minimises the minimax score may click on b: its
\* move is scored as getBestMove scores O's, with the roles exchanged.
OptimalCellsX(b) ==
    LET scored == {<<i, minimax([b EXCEPT ![i] = "X"], 0, TRUE)>> :
                       i \in getEmptyCells(b)}
        best == MinOf({p[2] : p \in scored})
    IN  {p[1] : p \in {q \in scored : q[2] = best}}

\* Self-play in the vs-computer component: every click is one of the
\* minimising cells, every reply is makeComputerMove's.
OptimalClick ==
    /\ currentPlayer = "X"
    /\ gameState = "playing"
    /\ \E index \in OptimalCellsX(board) : HandleCellClickCpu(index)

NextSelf ==
    \/ OptimalClick
    \/ TimerFires

SpecSelf == InitCpu /\ [][NextSelf]_vars

\* Boards for checkWinner and isBoardFull: three equal marks on an otherwise
\* empty board, and every full board.
WinnerProbeBoards ==
    {b \in [Cells -> Marks] :
         /\ Cardinality(getEmptyCells(b)) = 6
         /\ \E m \in Players : \A i \in Cells : b[i] \in {m, null}}
    \cup [Cells -> Players]

\* handleCellClick one click before a board of WinnerProbeBoards: the mark
\* the click adds is the current player's, no line is complete yet, and in
\* the vs-computer component it is X's turn.
InitLines ==
    /\ variant \in {"two", "cpu"}
    /\ \E t \in WinnerProbeBoards, i \in Cells :
           /\ t[i] # null
           /\ checkWinner([t EXCEPT ![i] = null]) = null
           /\ variant = "cpu" => t[i] = "X"
           /\ board = [t EXCEPT ![i] = null]
           /\ currentPlayer = t[i]
    /\ gameState = "playing"
    /\ winner = null
    /\ stats = NoStats
    /\ timers = {}
    /\ cleanup = NoTimer
    /\ last = [op |-> "init", index |-> -1, how |-> "none"]
    /\ finished = 0

NextLines ==
    /\ last.op = "init"
    /\ \E index \in Cells :
           \/ HandleCellClickTwo(index)
           \/ HandleCellClickCpu(index)

SpecLines == InitLines /\ [][NextLines]_vars

\* O on 0 and 1, X on 3 and 4: O completes the top row at index 2
WinInOneBoard ==
    [i \in Cells |-> IF i \in {0, 1} THEN "O"
                     ELSE IF i \in {3, 4} THEN "X" ELSE null]

ProbeBoards ==
    {b \in [Cells -> Marks] :
         Cardinality(getEmptyCells(b)) \in 1..MaxProbeEmpty}
    \cup {EmptyBoard, WinInOneBoard} \cup FirstBoards \cup SecondBoards

\* makeComputerMove applied to an arbitrary board: the vs-computer component
\* with its timer pending on a board of ProbeBoards.
InitBest ==
    /\ variant = "cpu"
    /\ board \in ProbeBoards
    /\ currentPlayer = "O"
    /\ gameState = "playing"
    /\ winner = null
    /\ stats = NoStats
    /\ timers = {[id |-> 1, board |-> board]}
    /\ cleanup = 1
    /\ last = [op |-> "init", index |-> -1, how |-> "none"]
    /\ finished = 0

NextBest == \E t \in timers : FireTimer(t)

SpecBest == InitBest /\ [][NextBest]_vars
----------------------------------------------------------------------------
session == <<board, currentPlayer, gameState, winner, stats>>

MarkCount(b) == Cardinality({i \in Cells : b[i] # null})

\* C1: in the vs-computer component every pending timer holds the session's
\* current board, so the board makeComputerMove is given when the timer fires
\* is the board the preceding human move committed, with O to move.
C1_TimerBoardIsCurrent ==
    \A t \in timers :
        /\ t.board = board
        /\ currentPlayer = "O"
        /\ gameState = "playing"

\* C1 witness: an automated move has fired in a later game, after a reset.
C1_Witness ==
    /\ variant = "cpu"
    /\ last.op = "timer"
    /\ board[last.index] = "O"
    /\ gameState = "playing"
    /\ stats.oWins + stats.draws >= 1

\* C2: at most one timer is pending; resetGame leaves none pending; and from the
\* all-empty board only an accepted human click changes the board.
C2_OneTimerResetDiscards ==
    /\ [](Cardinality(timers) <= 1)
    /\ [][ResetGame =>
            /\ timers' = {}
            /\ board' = EmptyBoard
            /\ currentPlayer' = "X"]_vars
    /\ [][board = EmptyBoard /\ board' # EmptyBoard =>
            /\ last'.op = "click"
            /\ \E i \in Cells : board' = [EmptyBoard EXCEPT ![i] = "X"]]_vars

\* C2 witness: resetGame ran while a timer was pending.
C2_Witness ==
    /\ variant = "cpu"
    /\ last = [op |-> "resetGame", index |-> -1, how |-> "pending"]
    /\ timers = {}
    /\ board = EmptyBoard
    /\ currentPlayer = "X"

\* C3: in the vs-computer component a click on any cell while the game is
\* playing and it is O's turn changes none of board, currentPlayer, gameState,
\* winner and stats.
C3_ClickRejectedWhilePending ==
    [][\A i \in Cells :
           (/\ gameState = "playing"
            /\ currentPlayer = "O"
            /\ HandleCellClickCpu(i)) => UNCHANGED session]_vars

\* C3 witness: a click was rejected on an empty cell with the timer pending.
C3_Witness ==
    /\ variant = "cpu"
    /\ last = [op |-> "click", index |-> -1, how |-> "rejected"]
    /\ gameState = "playing"
    /\ currentPlayer = "O"
    /\ timers # {}
    /\ MarkCount(board) = 1

\* C4: for every board with at least one empty cell, the move makeComputerMove
\* takes is the one getBestMove returned, an index in 0..8 whose cell is empty
\* on that board; the random fallback (getBestMove returning -1) is not taken.
C4_BestMoveIsEmptyCell ==
    [][\A t \in timers :
           (t \notin timers' /\ getEmptyCells(t.board) # {}) =>
               /\ last' = [op |-> "timer", index |-> getBestMove(t.board),
                           how |-> "minimax"]
               /\ last'.index \in getEmptyCells(t.board)
               /\ board' = [t.board EXCEPT ![last'.index] = "O"]]_vars

\* C4 witness: makeComputerMove has written O on a probed board that already
\* held a completed X line, with the move that getBestMove chose.
C4_Witness ==
    /\ last.op = "timer"
    /\ last.how = "minimax"
    /\ board[last.index] = "O"
    /\ Line(board, 0, 1, 2)
    /\ board[0] = "X"
    /\ timers = {}

\* C5: every automated move that is applied is applied while gameState is
\* playing and it is O's turn, on a cell that is empty on the current board,
\* and it is the move getBestMove chose.
C5_AutomatedMoveIsLegal ==
    [][(last'.op = "timer" /\ last'.index # -1) =>
            /\ gameState = "playing"
            /\ currentPlayer = "O"
            /\ last'.index \in Cells
            /\ board[last'.index] = null
            /\ board' = [board EXCEPT ![last'.index] = "O"]
            /\ last'.how = "minimax"]_vars

\* C5 witness: an automated move was applied and won the game for O.
C5_Witness ==
    /\ variant = "cpu"
    /\ last.op = "timer"
    /\ board[last.index] = "O"
    /\ gameState = "won"
    /\ winner = "O"

Total(s) == s.xWins + s.oWins + s.draws

\* a combination of winningCombinations is held by one mark on b
HasLine(b) ==
    \E k \in 1..8 :
        LET combo == winningCombinations[k]
        IN  /\ b[combo[1]] # null
            /\ b[combo[1]] = b[combo[2]]
            /\ b[combo[1]] = b[combo[3]]

\* C6: xWins + oWins + draws is the number of terminal phases reached since the
\* last resetStats; a step that ends a game adds exactly 1 to the counter of its
\* outcome and leaves the other two; resetStats zeroes them; no other step
\* changes a counter.
C6_CountersCountGames ==
    /\ [](Total(stats) = finished)
    /\ [][IF ResetStats THEN stats' = NoStats
          ELSE IF gameState = "playing" /\ gameState' = "won" /\ winner' = "X"
          THEN stats' = [stats EXCEPT !.xWins = @ + 1]
          ELSE IF gameState = "playing" /\ gameState' = "won" /\ winner' = "O"
          THEN stats' = [stats EXCEPT !.oWins = @ + 1]
          ELSE IF gameState = "playing" /\ gameState' = "draw"
          THEN stats' = [stats EXCEPT !.draws = @ + 1]
          ELSE stats' = stats]_vars

\* C6 witness: nine moves filled the board with no line, after an earlier game
\* had been counted: the draw counter went up by one.
C6_Witness ==
    /\ gameState = "draw"
    /\ isBoardFull(board)
    /\ stats.draws = 1
    /\ Total(stats) = 2
    /\ finished = 2

\* C7: a move that fills the last empty cell and completes a line ends the game
\* as won by the mover, counted as a win and not as a draw; gameState is never
\* draw on a board that holds a completed line.
C7_WinBeforeDraw ==
    /\ [](gameState = "draw" => ~HasLine(board))
    /\ [][(/\ Cardinality(getEmptyCells(board)) = 1
           /\ gameState = "playing"
           /\ isBoardFull(board')
           /\ HasLine(board')) =>
              /\ gameState' = "won"
              /\ winner' = currentPlayer
              /\ stats'.draws = stats.draws
              /\ Total(stats') = Total(stats) + 1]_vars

\* C7 witness: X's fifth mark filled the board and completed a line.
C7_Witness ==
    /\ isBoardFull(board)
    /\ HasLine(board)
    /\ gameState = "won"
    /\ winner = "X"
    /\ stats.xWins >= 1
    /\ stats.draws = 0
    /\ last.op = "click"

\* C8: in both components a click on an occupied cell, or any click while
\* gameState is won or draw, changes none of board, gameState, currentPlayer,
\* winner and stats.
C8_BadClickIsNoOp ==
    [][\A i \in Cells :
           (/\ (board[i] # null \/ gameState # "playing")
            /\ (HandleCellClickTwo(i) \/ HandleCellClickCpu(i))) =>
               UNCHANGED session]_vars

\* C8 witness: a click was rejected while the game was playing and, in the
\* vs-computer component, it was X's turn: the clicked cell was occupied.
C8_Witness ==
    /\ last = [op |-> "click", index |-> -1, how |-> "rejected"]
    /\ gameState = "playing"
    /\ currentPlayer = "X"
    /\ MarkCount(board) = 2

\* C9: gameState leaves playing only for won or draw; while it is won or draw,
\* every step but resetGame leaves gameState, winner and board as they are, and
\* only resetGame returns gameState to playing.
C9_PhaseOnlyForward ==
    /\ [](gameState \in {"playing", "won", "draw"})
    /\ [][(gameState # "playing" /\ ~ResetGame) =>
             UNCHANGED <<gameState, winner, board>>]_vars
    /\ [][(gameState # "playing" /\ gameState' = "playing") =>
             /\ last'.op = "resetGame"
             /\ board' = EmptyBoard]_vars

\* C9 witness: a click arrived after the game was won and left it won.
C9_Witness ==
    /\ last = [op |-> "click", index |-> -1, how |-> "rejected"]
    /\ gameState = "won"
    /\ winner \in Players
    /\ HasLine(board)

\* C10: the board always has the nine cells 0..8, and every step but resetGame
\* leaves each marked cell with its mark and changes at most one empty cell.
C10_CellsNeverRevert ==
    /\ [](board \in [Cells -> Marks])
    /\ [][~ResetGame =>
             /\ \A i \in Cells : board[i] # null => board'[i] = board[i]
             /\ Cardinality({i \in Cells : board'[i] # board[i]}) <= 1]_vars

\* C10 witness: the second automated move of a game was written over the
\* board its timer captured, both X marks and the first O mark still in place.
C10_Witness ==
    /\ variant = "cpu"
    /\ last.op = "timer"
    /\ board[last.index] = "O"
    /\ MarkCount(board) = 4
    /\ Cardinality({i \in Cells : board[i] = "X"}) = 2

\* the 'computer to move' sub-state of the vs-computer component
ComputerToMove ==
    variant = "cpu" /\ gameState = "playing" /\ currentPlayer = "O"

\* C11: in the vs-computer component, whenever the game is playing with O to
\* move a timer is pending, and if pending timers fire then from every such
\* state the automated move is applied or resetGame runs.
C11_AutomatedMoveServed ==
    /\ [](ComputerToMove => timers # {})
    /\ ComputerToMove ~>
           (\/ last.op = "timer" /\ last.index \in Cells
            \/ last.op = "resetGame")

\* C11 witness: the third automated reply of a game was applied and the game
\* goes on.
C11_Witness ==
    /\ variant = "cpu"
    /\ last.op = "timer"
    /\ board[last.index] = "O"
    /\ MarkCount(board) = 6
    /\ gameState = "playing"
    /\ currentPlayer = "X"

\* C12: in both components resetGame, run in any state, sets the board to nine
\* empty cells, gameState to playing, currentPlayer to X and winner to null,
\* and leaves the three counters as they were.
C12_ResetGameEffect ==
    [][last'.op = "resetGame" =>
           /\ board' = EmptyBoard
           /\ gameState' = "playing"
           /\ currentPlayer' = "X"
           /\ winner' = null
           /\ stats' = stats]_vars

\* C12 witness: resetGame ran after at least one game was counted and while an
\* automated move was pending.
C12_Witness ==
    /\ last = [op |-> "resetGame", index |-> -1, how |-> "pending"]
    /\ Total(stats) >= 1
    /\ board = EmptyBoard

\* C13: in both components resetStats, run in any state, sets the three
\* counters to 0 and leaves board, currentPlayer, gameState and winner as they
\* were; it leaves the pending timers as they were, so in the vs-computer
\* component a pending automated move is still the one timer on the unchanged
\* board, can still fire, and when it fires next it writes O on that board and
\* no timer remains.
C13_ResetStatsEffect ==
    /\ [][last'.op = "resetStats" =>
              /\ stats' = NoStats
              /\ UNCHANGED <<board, currentPlayer, gameState, winner>>
              /\ timers' = timers
              /\ cleanup' = cleanup]_vars
    /\ []((last.op = "resetStats" /\ last.how = "pending") =>
              /\ \E t \in timers : timers = {t} /\ t.board = board
              /\ ENABLED TimerFires)
    /\ [][(last.op = "resetStats" /\ last'.op = "timer") =>
              /\ last'.index \in getEmptyCells(board)
              /\ board' = [board EXCEPT ![last'.index] = "O"]
              /\ timers' = {}]_vars

\* C13 witness: resetStats ran in the second game of a session while an
\* automated move was pending.
C13_Witness ==
    /\ variant = "cpu"
    /\ last = [op |-> "resetStats", index |-> -1, how |-> "pending"]
    /\ stats = NoStats
    /\ timers # {}
    /\ MarkCount(board) = 3

\* the empty cells of b at which an O completes a line of three O
WinningCells(b) ==
    {i \in getEmptyCells(b) :
         \E k \in 1..8 :
             \A j \in 1..3 :
                 [b EXCEPT ![i] = "O"][winningCombinations[k][j]] = "O"}

LowestOf(S) == CHOOSE i \in S : \A j \in S : i <= j

\* C14: on every board with no completed line on which some empty cell
\* completes an O line at once, each such cell scores 10 and every other empty
\* cell at most 9, and makeComputerMove writes O on the lowest-indexed such
\* cell, which getBestMove returned, and the game is won by O; on the board
\* [O,O,_,X,X,_,_,_,_] the cell is 2.
C14_ImmediateWinTaken ==
    /\ [](\A t \in timers :
              (~HasLine(t.board) /\ WinningCells(t.board) # {}) =>
                  \A i \in getEmptyCells(t.board) :
                      IF i \in WinningCells(t.board)
                      THEN MoveScore(t.board, i) = 10
                      ELSE MoveScore(t.board, i) <= 9)
    /\ [][\A t \in timers :
              (/\ t \notin timers'
               /\ ~HasLine(t.board)
               /\ WinningCells(t.board) # {}) =>
                  /\ getBestMove(t.board) = LowestOf(WinningCells(t.board))
                  /\ last' = [op |-> "timer",
                              index |-> LowestOf(WinningCells(t.board)),
                              how |-> "minimax"]
                  /\ board' = [t.board EXCEPT ![last'.index] = "O"]
                  /\ gameState' = "won"
                  /\ winner' = "O"]_vars
    /\ [][\A t \in timers :
              (t \notin timers' /\ t.board = WinInOneBoard) =>
                  /\ last'.index = 2
                  /\ gameState' = "won"
                  /\ winner' = "O"]_vars

\* C14 witness: makeComputerMove was given [O,O,_,X,X,_,_,_,_] and has
\* completed the top row.
C14_Witness ==
    /\ last = [op |-> "timer", index |-> 2, how |-> "minimax"]
    /\ board = [WinInOneBoard EXCEPT ![2] = "O"]
    /\ gameState = "won"
    /\ winner = "O"
    /\ stats.oWins = 1

\* C15: the minimax value of the empty board is 0, and when every X is
\* clicked on a cell of minimal minimax score (the lowest-indexed one
\* included) and every O is makeComputerMove's, each move adds one mark, a game
\* in progress always has its next move, and every game that ends from the
\* empty board ends as a draw on a full board with no completed line.
C15_OptimalSelfPlayDraws ==
    /\ [](board = EmptyBoard =>
              /\ minimax(board, 0, FALSE) = 0
              /\ minimax(board, 0, TRUE) = 0)
    /\ [](gameState = "playing" =>
              IF currentPlayer = "X"
              THEN LowestOf(OptimalCellsX(board)) \in getEmptyCells(board)
              ELSE timers # {})
    /\ [][MarkCount(board') = MarkCount(board) + 1]_vars
    /\ [](gameState # "playing" =>
              /\ gameState = "draw"
              /\ winner = null
              /\ isBoardFull(board)
              /\ checkWinner(board) = null
              /\ ~HasLine(board))

\* C15 witness: the game in which every X took the lowest-indexed minimising
\* cell has ended: X X O / O O X / X O X, a draw.
C15_Witness ==
    /\ gameState = "draw"
    /\ stats = [xWins |-> 0, oWins |-> 0, draws |-> 1]
    /\ board = [i \in Cells |-> IF i \in {0, 1, 5, 6, 8} THEN "X" ELSE "O"]
    /\ last.op = "click"

\* the reference evaluator: the three rows, the three columns and the two
\* diagonals of the 3 x 3 grid, and the marks that fill one of them
ReferenceLines ==
    {{3 * r + c : c \in 0..2} : r \in 0..2}
    \cup {{3 * r + c : r \in 0..2} : c \in 0..2}
    \cup {{4 * k : k \in 0..2}, {2 * k + 2 : k \in 0..2}}

ReferenceWinners(b) ==
    {m \in Players : \E L \in ReferenceLines : \A i \in L : b[i] = m}

LineBoard(L, m) == [i \in Cells |-> IF i \in L THEN m ELSE null]

\* C16: winningCombinations lists the 8 reference lines; checkWinner returns a
\* mark that fills a reference line, or null when no mark does; on the board
\* with one reference line filled with a mark and all other cells empty it
\* returns that mark and handleCellClick records the game as won by it; on
\* every full board with no completed line it returns null, isBoardFull
\* returns true and handleCellClick records a draw.
C16_CheckWinnerMatchesReference ==
    /\ Cardinality(ReferenceLines) = 8
    /\ ReferenceLines =
           {{winningCombinations[k][j] : j \in 1..3} : k \in 1..8}
    /\ IF ReferenceWinners(board) = {}
       THEN checkWinner(board) = null
       ELSE checkWinner(board) \in ReferenceWinners(board)
    /\ \A L \in ReferenceLines, m \in Players :
           board = LineBoard(L, m) =>
               /\ checkWinner(board) = m
               /\ ~isBoardFull(board)
               /\ gameState = "won"
               /\ winner = m
    /\ ((\A i \in Cells : board[i] \in Players)
            /\ ReferenceWinners(board) = {}) =>
               /\ checkWinner(board) = null
               /\ isBoardFull(board)
               /\ gameState = "draw"
               /\ winner = null

\* C16 witness: a click completed the diagonal 2, 4, 6 with O on an otherwise
\* empty board.
C16_Witness ==
    /\ board = LineBoard({2, 4, 6}, "O")
    /\ last.op = "click"
    /\ gameState = "won"
    /\ winner = "O"

CountOf(b, m) == Cardinality({i \in Cells : b[i] = m})

\* C17: in both components, in every reachable state the board holds as many
\* X as O or one X more, and while gameState is playing currentPlayer is X
\* exactly when the counts are equal and O exactly when X has one more.
C17_MarksAlternate ==
    /\ CountOf(board, "X") - CountOf(board, "O") \in {0, 1}
    /\ gameState = "playing" =>
           /\ currentPlayer = "X" <=> CountOf(board, "X") = CountOf(board, "O")
           /\ currentPlayer = "O" <=>
                  CountOf(board, "X") = CountOf(board, "O") + 1

\* C17 witness: in the second game of a two-player session, begun by
\* resetGame, three X and three O are on the board and it is X's turn.
C17_Witness ==
    /\ variant = "two"
    /\ finished = 1
    /\ gameState = "playing"
    /\ CountOf(board, "X") = 3
    /\ CountOf(board, "O") = 3
    /\ currentPlayer = "X"

\* C18: in the vs-computer component no reachable state is won by X, and
\* xWins is 0 after any sequence of games.
C18_HumanNeverWins ==
    variant = "cpu" =>
        /\ ~(gameState = "won" /\ winner = "X")
        /\ checkWinner(board) # "X"
        /\ stats.xWins = 0

\* C18 witness: two games against the computer are over, one drawn and one
\* that O has just won with the eighth mark.
C18_Witness ==
    /\ variant = "cpu"
    /\ finished = 2
    /\ stats = [xWins |-> 0, oWins |-> 1, draws |-> 1]
    /\ gameState = "won"
    /\ winner = "O"
    /\ MarkCount(board) = 8

\* C19: in both components gameState is won exactly when checkWinner(board)
\* is a mark, and then winner is that mark and only that player has a
\* completed line; gameState is draw exactly when the board is full with no
\* completed line; gameState is playing exactly when the board has no
\* completed line and an empty cell, and then winner is null.
C19_PhaseMatchesBoard ==
    /\ gameState = "won" <=> checkWinner(board) \in Players
    /\ gameState = "won" =>
           /\ winner = checkWinner(board)
           /\ ReferenceWinners(board) = {winner}
    /\ gameState = "draw" <=> (isBoardFull(board) /\ ~HasLine(board))
    /\ gameState = "playing" <=>
           (~HasLine(board) /\ getEmptyCells(board) # {})
    /\ gameState = "playing" => winner = null
    /\ gameState = "draw" => winner = null

\* C19 witness: the ninth mark of a two-player game completed a line, so the
\* full board is recorded as won by X.
C19_Witness ==
    /\ variant = "two"
    /\ isBoardFull(board)
    /\ gameState = "won"
    /\ winner = "X"
    /\ checkWinner(board) = "X"
    /\ stats.xWins = 1

====
